---- MODULE Spec2Model ----
(***************************************************************************)
(* Model of inker.py: the debounced ink-event detector and causal frame   *)
(* re-compositor (read_block, find_ink_frame and the driver inker()).     *)
(*                                                                         *)
(* A frame is modelled by the set of its pixels that are "black"          *)
(* (intensity < bw_cutoff); a pixel is a number 1..npix standing for one  *)
(* (row, col) of the cropped grid in row-major order.  Frame indices are  *)
(* 0-based as in the source; TLA+ sequences are 1-based, so frame k of a  *)
(* buffer buf is buf[k+1].                                                 *)
(***************************************************************************)
EXTENDS Integers, Sequences, FiniteSets, TLC

\* ---------------------------------------------------------------- bounds
MaxPixels  == 1      \* pixels of the cropped grid
MaxStride  == 2      \* stride factor
MaxBlock   == 2      \* block_size
MaxEff     == 5      \* frames of the strided stream
MaxBadTail == 1      \* trailing source frames get_data cannot produce
MaxBlockLong == 4    \* block_size in the long single-pixel runs
MaxEffLong   == 11   \* strided frames in the long single-pixel runs
MaxOverrun == 2      \* retries followed past the start of the stream
MaxOutro   == 1      \* outro_length, seconds
MaxWindow  == 6      \* frames of a window scanned on its own
MaxBlockFind == 3    \* block_size of a window scanned on its own

None == -1           \* Python's None as returned by find_ink_frame

VARIABLES
  pixels,            \* the cropped grid: set of pixel ids
  video,             \* the source video: sequence of frames (sets of black pixels)
  total_frames,      \* reader.count_frames()
  bad_tail,          \* number of trailing frames reader.get_data cannot produce
  fps100,            \* metadata['fps'] in hundredths
  stride, block_size, only_ink_frames, outro_length,   \* get_parameters()
  eff_frames,        \* total_frames // stride
  n,                 \* offset of the reference-frame fetch
  final_frame,       \* reference mask: pixels black in the fetched late frame
  uninked,           \* list of pixels still to be inked
  ink_frame,         \* transition matrix: pixel -> frame index
  pos,               \* number of source frames the reader has delivered
  frame_buffer,      \* window buffer: sequence of frames
  block_number,
  new_inked_frames,  \* buffer-relative frames in which a pixel was newly inked
  out,               \* frames appended to the writer
  pc,                \* position of the driver
  err,               \* message of the error that ended the run, or "none"
  ret                \* value returned by a call of find_ink_frame on its own

vars == <<pixels, video, total_frames, bad_tail, fps100, stride, block_size,
          only_ink_frames, outro_length, eff_frames, n, final_frame, uninked,
          ink_frame, pos, frame_buffer, block_number, new_inked_frames, out,
          pc, err, ret>>

params == <<pixels, video, total_frames, bad_tail, fps100, stride, block_size,
            only_ink_frames, outro_length, eff_frames>>

\* ---------------------------------------------------------------- helpers
Range(s) == {s[k] : k \in 1..Len(s)}

Min(S) == CHOOSE a \in S : \A b \in S : a <= b

\* is_black(pixel, threshold): pixel < threshold; here frame is the set of
\* pixels below the threshold
is_black(frame, p) == p \in frame

\* frame_buffer[k] with numpy indexing: a negative k counts from the end
FrameAt(buf, k) == IF k < 0 THEN buf[Len(buf) + k + 1] ELSE buf[k + 1]

\* read_block: reads up to block_size*stride source frames from position at,
\* stops at the end of the stream, keeps the frames with i % stride = 0
ReadCount(at) ==
  IF total_frames - at < block_size * stride
    THEN total_frames - at
    ELSE block_size * stride

\* faulty variant of read_block: every frame read is kept, the stride is ignored
read_blockKeepsAll(at) == [k \in 1..ReadCount(at) |-> video[at + k]]

read_block(at) ==
  LET cnt  == ReadCount(at)
      kept == (cnt + stride - 1) \div stride
  IN  [k \in 1..kept |-> video[at + (k - 1) * stride + 1]]

\* find_ink_frame: inner while loop (step back while black and x-y >= 0)
RECURSIVE StepBack(_, _, _, _)
StepBack(buf, p, x, y) ==
  IF is_black(FrameAt(buf, x - y), p) /\ x - y >= 0
    THEN StepBack(buf, p, x, y + 1)
    ELSE y

\* faulty variant of ScanFrom: any run ending at x counts as long enough
RECURSIVE ScanFromAnyRun(_, _, _, _)
ScanFromAnyRun(buf, p, bs, x) ==
  IF x < Len(buf)
    THEN LET y == StepBack(buf, p, x, 0)
         IN  IF y >= 1 THEN x - y + 1 ELSE ScanFromAnyRun(buf, p, bs, x - y + bs)
    ELSE None

\* faulty variant of ScanFrom: the skip forward goes one frame too far
RECURSIVE ScanFromSkipsTooFar(_, _, _, _)
ScanFromSkipsTooFar(buf, p, bs, x) ==
  IF x < Len(buf)
    THEN LET y == StepBack(buf, p, x, 0)
         IN  IF y >= bs THEN x - y + 1
                        ELSE ScanFromSkipsTooFar(buf, p, bs, x - y + bs + 1)
    ELSE None

\* find_ink_frame: outer while loop
RECURSIVE ScanFrom(_, _, _, _)
ScanFrom(buf, p, bs, x) ==
  IF x < Len(buf)
    THEN LET y == StepBack(buf, p, x, 0)
         IN  IF y >= bs THEN x - y + 1 ELSE ScanFrom(buf, p, bs, x - y + bs)
    ELSE None

\* faulty variant of find_ink_frame: the scan starts one frame too far
find_ink_frameLate(buf, p, bs) == ScanFrom(buf, p, bs, bs)

find_ink_frame(buf, p, bs) == ScanFrom(buf, p, bs, bs - 1)

\* np.where(ink_frame <= current_frame, 0, 255): the black pixels of the
\* rendered frame
Render(m, current_frame) == {p \in DOMAIN m : m[p] <= current_frame}

\* faulty variant of InkIndex: the block offset is forgotten
InkIndexNoOffset(bn, f) == f

\* ink_frame[i][j] = block_number*block_size + f
InkIndex(bn, f) == bn * block_size + f

\* faulty variant of Remaining: inked pixels stay in the uninked list
RemainingKeepsAll(list, inked) == list

\* "for [i,j] in new_inked_pixels: uninked.remove((i,j))"
Remaining(list, inked) == SelectSeq(list, LAMBDA p : p \notin inked)

\* faulty variant of EnoughFrames: exactly 2*block_size frames are accepted
EnoughFramesOrEqual == eff_frames >= 2 * block_size

\* the assertion guarding the initial fill
EnoughFrames == eff_frames > 2 * block_size

\* faulty variant of NotBlackAt: the assertion never fires
NotBlackAtNever(buf, list, x) == {}

\* positions of the uninked list whose pixel is not black in frame x
NotBlackAt(buf, list, x) ==
  {k \in 1..Len(list) : ~is_black(FrameAt(buf, x), list[k])}

\* reader.get_data(idx) succeeds
Readable(idx) == idx >= 0 /\ idx < total_frames - bad_tail

\* number of steady-state iterations: range(eff_frames//block_size - 1)
NumBlocks == eff_frames \div block_size - 1

\* ---------------------------------------------------------------- inputs
\* The source video over np pixels with ns strided frames: the frames at
\* multiples of the stride are free, the frames in between (never decoded
\* into the buffer) share one content, all white or all black.
Videos(np, st, tf, ns) ==
  LET px == 1..np IN
  { [i \in 1..tf |-> IF (i - 1) % st = 0 THEN s[(i - 1) \div st + 1] ELSE rf] :
      s \in [1..ns -> SUBSET px],
      rf \in (IF st = 1 THEN {{}} ELSE {{}, px}) }

InitFrom(npS, stS, bsS, nsS, btS, oiS, fpsS, olS) ==
  \E np \in npS, st \in stS, bs \in bsS, ns \in nsS, bt \in btS,
     oi \in oiS, fp \in fpsS, ol \in olS :
    \E tf \in ((ns - 1) * st + 1)..(ns * st) :
      \E v \in Videos(np, st, tf, ns) :
        /\ pixels = 1..np
        /\ video = v
        /\ total_frames = tf
        /\ bad_tail = bt
        /\ fps100 = fp
        /\ stride = st
        /\ block_size = bs
        /\ only_ink_frames = oi
        /\ outro_length = ol
        /\ eff_frames = tf \div st
        /\ n = 1
        /\ final_frame = {}
        /\ uninked = <<>>
        /\ ink_frame = [p \in 1..np |-> tf \div st]
        /\ pos = 0
        /\ frame_buffer = <<>>
        /\ block_number = 0
        /\ new_inked_frames = {}
        /\ out = <<>>
        /\ pc = "getfinal"
        /\ err = "none"
        /\ ret = None

\* the state when inker() has read the metadata and the parameters: every
\* grid, stride, block size, frame count and video within the bounds
Init ==
  InitFrom(1..MaxPixels, 1..MaxStride, 1..MaxBlock, 1..MaxEff, 0..MaxBadTail,
           {FALSE}, {100}, {1})

\* runs over a grid of two pixels, whose streams can be compared
InitPair ==
  InitFrom({2}, 1..MaxStride, 1..MaxBlock, 1..MaxEff, 0..MaxBadTail,
           {FALSE}, {100}, {1})

\* runs of a single pixel with stride 1 in both emission modes, at an
\* integer and a non-integer frame rate
InitInk ==
  InitFrom({1}, {1}, 1..MaxBlock, 1..MaxEff, 0..MaxBadTail, BOOLEAN,
           {100, 2997}, 0..MaxOutro)

\* long runs of a single pixel with stride 1
InitLong ==
  InitFrom({1}, {1}, 1..MaxBlockLong, 1..MaxEffLong, 0..MaxBadTail, {FALSE},
           {100}, {1})

\* ---------------------------------------------------------------- actions
\* lines 191-197, failing branch: get_data raises IndexError, retry earlier
RetryFinalFrame ==
  /\ pc = "getfinal"
  /\ ~Readable(total_frames - n)
  /\ n - total_frames < MaxOverrun
  /\ n' = n + stride
  /\ UNCHANGED <<ret, params, final_frame, uninked, ink_frame, pos, frame_buffer,
                 block_number, new_inked_frames, out, pc, err>>

\* ascending list of the elements of a set of pixels
RECURSIVE SortedList(_)
SortedList(S) ==
  IF S = {} THEN <<>> ELSE <<Min(S)>> \o SortedList(S \ {Min(S)})

\* lines 191-223: the reference frame is fetched; mask, uninked list and
\* ink_frame matrix are built, the reader is re-initialized
GetFinalFrame ==
  /\ pc = "getfinal"
  /\ Readable(total_frames - n)
  /\ final_frame' = video[total_frames - n + 1]
  /\ uninked' = SortedList(video[total_frames - n + 1])
  /\ ink_frame' = [p \in pixels |-> eff_frames]
  /\ pos' = 0
  /\ pc' = "fill"
  /\ UNCHANGED <<ret, params, n, frame_buffer, block_number, new_inked_frames,
                 out, err>>

\* line 227, failing assertion
NotEnoughFrames ==
  /\ pc = "fill"
  /\ ~EnoughFrames
  /\ pc' = "abort"
  /\ err' = "not enough frames"
  /\ UNCHANGED <<ret, params, n, final_frame, uninked, ink_frame, pos,
                 frame_buffer, block_number, new_inked_frames, out>>

\* lines 227-238: the buffer is filled with two blocks, the loop is entered
FillBuffer ==
  /\ pc = "fill"
  /\ EnoughFrames
  /\ LET b1 == read_block(pos)
         p1 == pos + ReadCount(pos)
         b2 == read_block(p1)
     IN  /\ frame_buffer' = b1 \o b2
         /\ pos' = p1 + ReadCount(p1)
  /\ block_number' = 0
  /\ pc' = IF 0 < NumBlocks THEN "scan" ELSE "final"
  /\ UNCHANGED <<ret, params, n, final_frame, uninked, ink_frame,
                 new_inked_frames, out, err>>

\* lines 241-253: search the window for new ink frames
ScanBlock ==
  /\ pc = "scan"
  /\ LET f(p)  == find_ink_frame(frame_buffer, p, block_size)
         found == {p \in Range(uninked) : f(p) # None}
     IN  /\ ink_frame' = [p \in pixels |->
                            IF p \in found
                              THEN InkIndex(block_number, f(p))
                              ELSE ink_frame[p]]
         /\ new_inked_frames' = {f(p) : p \in found}
         /\ uninked' = Remaining(uninked, found)
  /\ pc' = "write"
  /\ UNCHANGED <<ret, params, n, final_frame, pos, frame_buffer, block_number,
                 out, err>>

\* the frames written by "for f in range(cnt)" under only_ink_frames
RECURSIVE Emitted(_, _, _)
Emitted(buf, base, k) ==
  IF k > Len(buf) THEN <<>>
  ELSE (IF only_ink_frames /\ (k - 1) \notin new_inked_frames
          THEN <<>>
          ELSE << [kind |-> "frame", f |-> base + k - 1, img |-> buf[k]] >>)
       \o Emitted(buf, base, k + 1)

\* lines 262-273: rewrite the front block from ink_frame and write it out
WriteBlock ==
  /\ pc = "write"
  /\ LET base  == block_number * block_size
         front == [k \in 1..block_size |-> Render(ink_frame, base + k - 1)]
     IN  /\ frame_buffer' = [k \in 1..Len(frame_buffer) |->
                               IF k <= block_size THEN front[k]
                                                  ELSE frame_buffer[k]]
         /\ out' = out \o Emitted(front, base, 1)
  /\ pc' = "slide"
  /\ UNCHANGED <<ret, params, n, final_frame, uninked, ink_frame, pos,
                 block_number, new_inked_frames, err>>

\* lines 276-288: drop the front block, read the next one; np.concatenate
\* raises when read_block returns an empty array
SlideWindow ==
  /\ pc = "slide"
  /\ LET b == read_block(pos)
     IN  IF Len(b) = 0
           THEN /\ pc' = "abort"
                /\ err' = "concatenate"
                /\ frame_buffer' = SubSeq(frame_buffer, block_size + 1,
                                          Len(frame_buffer))
                /\ UNCHANGED <<pos, block_number>>
           ELSE /\ frame_buffer' = SubSeq(frame_buffer, block_size + 1,
                                          Len(frame_buffer)) \o b
                /\ pos' = pos + ReadCount(pos)
                /\ block_number' = block_number + 1
                /\ pc' = IF block_number + 1 < NumBlocks THEN "scan"
                                                         ELSE "final"
                /\ err' = err
  /\ UNCHANGED <<ret, params, n, final_frame, uninked, ink_frame,
                 new_inked_frames, out>>

\* faulty variant of BackRun: the white frame that stops the run is taken
\* as its start
RECURSIVE BackRunOffByOne(_, _, _, _)
BackRunOffByOne(buf, p, x, y) ==
  IF x - y >= 0 /\ is_black(FrameAt(buf, x - y), p)
    THEN BackRunOffByOne(buf, p, x, y + 1)
    ELSE IF x - y >= 0 THEN x - y ELSE x - y + 1

\* lines 302-310 for one pixel: start of the ink run ending at the last frame
RECURSIVE BackRun(_, _, _, _)
BackRun(buf, p, x, y) ==
  IF x - y >= 0 /\ is_black(FrameAt(buf, x - y), p)
    THEN BackRun(buf, p, x, y + 1)
    ELSE x - y + 1

\* lines 295-315: final-block scan
FinalScan ==
  /\ pc = "final"
  /\ LET bn   == eff_frames \div block_size - 1
         x    == Len(frame_buffer) - 1
         bad  == NotBlackAt(frame_buffer, uninked, x)
         upto == IF bad = {} THEN Len(uninked) ELSE Min(bad) - 1
         done == {uninked[k] : k \in 1..upto}
         f(p) == BackRun(frame_buffer, p, x, 0)
     IN  /\ block_number' = bn
         /\ ink_frame' = [p \in pixels |->
                            IF p \in done THEN InkIndex(bn, f(p))
                                          ELSE ink_frame[p]]
         /\ new_inked_frames' = {f(p) : p \in done}
         /\ IF bad = {}
              THEN /\ uninked' = Remaining(uninked, done)
                   /\ pc' = "finalwrite"
                   /\ err' = err
              ELSE /\ uninked' = uninked
                   /\ pc' = "abort"
                   /\ err' = "uninked pixel not black in final frame"
  /\ UNCHANGED <<ret, params, n, final_frame, pos, frame_buffer, out>>

\* lines 318-327: render and write every frame of the buffer
FinalWrite ==
  /\ pc = "finalwrite"
  /\ LET base == block_number * block_size
         rest == [k \in 1..Len(frame_buffer) |->
                    Render(ink_frame, base + k - 1)]
     IN  /\ frame_buffer' = rest
         /\ out' = out \o Emitted(rest, base, 1)
  /\ pc' = "outro"
  /\ UNCHANGED <<ret, params, n, final_frame, uninked, ink_frame, pos,
                 block_number, new_inked_frames, err>>

\* int(outro_length * fps)
OutroCount == (outro_length * fps100) \div 100

\* lines 329-330: hold the last frame
WriteOutro ==
  /\ pc = "outro"
  /\ LET last == block_number * block_size + Len(frame_buffer) - 1
     IN  out' = out \o [k \in 1..OutroCount |->
                          [kind |-> "outro", f |-> last,
                           img |-> FrameAt(frame_buffer, -1)]]
  /\ pc' = "done"
  /\ UNCHANGED <<ret, params, n, final_frame, uninked, ink_frame, pos,
                 frame_buffer, block_number, new_inked_frames, err>>

Next ==
  \/ RetryFinalFrame
  \/ GetFinalFrame
  \/ NotEnoughFrames
  \/ FillBuffer
  \/ ScanBlock
  \/ WriteBlock
  \/ SlideWindow
  \/ FinalScan
  \/ FinalWrite
  \/ WriteOutro

Spec == Init /\ [][Next]_vars

SpecPair == InitPair /\ [][Next]_vars

SpecInk == InitInk /\ [][Next]_vars

SpecLong == InitLong /\ [][Next]_vars

\* ------------------------------------------- find_ink_frame on its own
\* a call find_ink_frame(frame_buffer, i, j, block_size, bw_cutoff) on any
\* window of at least block_size frames over two pixels; uninked holds the
\* pixel (i, j) of the call
InitFind ==
  \E bs \in 1..MaxBlockFind :
    \E len \in bs..MaxWindow :
      \E w \in [1..len -> SUBSET (1..2)], p \in 1..2 :
        /\ pixels = 1..2
        /\ video = <<>>
        /\ total_frames = 0
        /\ bad_tail = 0
        /\ fps100 = 100
        /\ stride = 1
        /\ block_size = bs
        /\ only_ink_frames = FALSE
        /\ outro_length = 0
        /\ eff_frames = 0
        /\ n = 1
        /\ final_frame = {}
        /\ uninked = <<p>>
        /\ ink_frame = [q \in 1..2 |-> 0]
        /\ pos = 0
        /\ frame_buffer = w
        /\ block_number = 0
        /\ new_inked_frames = {}
        /\ out = <<>>
        /\ pc = "call"
        /\ err = "none"
        /\ ret = None

\* lines 43-62: the call returns
CallFindInkFrame ==
  /\ pc = "call"
  /\ ret' = find_ink_frame(frame_buffer, uninked[1], block_size)
  /\ pc' = "returned"
  /\ UNCHANGED <<params, n, final_frame, uninked, ink_frame, pos,
                 frame_buffer, block_number, new_inked_frames, out, err>>

SpecFind == InitFind /\ [][CallFindInkFrame]_vars

\* ------------------------------------------------------- the input stream
\* number of frames of the strided stream and the stream itself, as the
\* decoder delivers it to the core
NumStrided == (total_frames + stride - 1) \div stride

StridedStream == [k \in 1..NumStrided |-> video[(k - 1) * stride + 1]]

\* pixel p is ink in frame k (0-based) of the strided stream
InkAt(p, k) == p \in StridedStream[k + 1]

\* frames s .. s+len-1 of the strided stream exist and are all ink for p
RunAt(p, s, len) ==
  /\ s >= 0
  /\ s + len <= NumStrided
  /\ \A k \in s..(s + len - 1) : InkAt(p, k)

\* starts of the runs of block_size consecutive ink frames of p
SustainedStarts(p) == {s \in 0..(NumStrided - 1) : RunAt(p, s, block_size)}

\* first frame of the ink run that ends at the last frame of the stream
LastRunStart(p) ==
  Min({s \in 0..(NumStrided - 1) : RunAt(p, s, NumStrided - s)})

\* first frame index held by the final buffer
FinalBase == (eff_frames \div block_size - 1) * block_size

\* the frames of the writer that are derived from input frames
InputFrames == {k \in 1..Len(out) : out[k].kind = "frame"}

\* ------------------------------------------------------------------ C1
\* C1: causal rendering over the whole run: at Done, every emitted
\* input-derived frame shows a pixel black iff the frame's index is at or
\* after the pixel's transition index as it stands at Done.
C1_CausalRendering ==
  pc = "done" =>
    \A k \in InputFrames : \A p \in pixels :
      (p \in out[k].img) <=> (out[k].f >= ink_frame[p])

\* a run that resolved a pixel in a block after the first, having emitted
\* the pixel both white and black
C1_Witness ==
  /\ pc = "done"
  /\ \E p \in pixels :
       /\ ink_frame[p] >= 2 * block_size
       /\ ink_frame[p] < eff_frames
       /\ \E k \in InputFrames : out[k].f < block_size /\ p \notin out[k].img
       /\ \E k \in InputFrames : p \in out[k].img

\* ------------------------------------------------------------------ C2
\* C2 as stated: at Done, every pixel of the reference mask whose strided
\* stream has a run of block_size consecutive ink frames has as transition
\* index the first frame of the earliest such run, whichever block
\* resolved it.
C2_EarliestSustained ==
  pc = "done" =>
    \A p \in final_frame :
      SustainedStarts(p) # {} => ink_frame[p] = Min(SustainedStarts(p))

\* C2 as amended: the transition index is the first frame of the earliest
\* run of block_size ink frames when that run starts at or before the first
\* frame of the final buffer (a steady-state scan resolves the pixel);
\* otherwise the final block resolves the pixel and records the first frame
\* of the ink run that ends at the last frame of the stream.
C2_EarliestOrLastRun ==
  pc = "done" =>
    \A p \in final_frame :
      SustainedStarts(p) # {} =>
        ink_frame[p] = IF Min(SustainedStarts(p)) <= FinalBase
                         THEN Min(SustainedStarts(p))
                         ELSE LastRunStart(p)

\* a finished run whose pixel had a sustained run inside the final buffer
\* that ended before the last frame
C2_Witness ==
  /\ pc = "done"
  /\ \E p \in final_frame :
       /\ SustainedStarts(p) # {}
       /\ Min(SustainedStarts(p)) > FinalBase
       /\ LastRunStart(p) # Min(SustainedStarts(p))
       /\ ink_frame[p] = LastRunStart(p)

\* ------------------------------------------------------------------ C3
\* C3: coverage: at Done the unresolved list is empty and every pixel that
\* is ink in the reference mask has a transition index strictly below the
\* sentinel eff_frames.
C3_Coverage ==
  pc = "done" =>
    /\ uninked = <<>>
    /\ \A p \in final_frame : ink_frame[p] < eff_frames

\* ------------------------------------------------------------------ C4
\* every ink frame of p in the window lies between two non-ink frames of
\* the window that are at most bs apart: p has only runs shorter than bs,
\* each bounded by non-ink frames inside the window
OnlyShortRuns(buf, p, bs) ==
  \A k \in 1..Len(buf) :
    p \in buf[k] =>
      \E a \in 1..(k - 1), b \in (k + 1)..Len(buf) :
        /\ p \notin buf[a]
        /\ p \notin buf[b]
        /\ b - a <= bs

\* C4: debounce: a steady-state scan assigns no transition to an unresolved
\* pixel whose ink frames in the window only form bounded runs shorter than
\* block_size; the pixel stays in the uninked list with the sentinel value.
C4_Debounce ==
  [][pc = "scan" =>
       \A p \in Range(uninked) :
         OnlyShortRuns(frame_buffer, p, block_size) =>
           /\ p \in Range(uninked')
           /\ ink_frame'[p] = eff_frames]_vars

\* after a scan (the window is still as scanned): a pixel left unresolved
\* although it is ink somewhere in the window, in short bounded runs only
C4_Witness ==
  /\ pc = "write"
  /\ \E p \in Range(uninked) :
       /\ OnlyShortRuns(frame_buffer, p, block_size)
       /\ \E k \in 1..Len(frame_buffer) : p \in frame_buffer[k]
       /\ ink_frame[p] = eff_frames

\* ------------------------------------------------------------------ C5
\* C5: monotonicity: a transition index that differs from the sentinel is
\* never changed by a later step.
C5_Monotonic ==
  [][\A p \in pixels :
       ink_frame[p] # eff_frames => ink_frame'[p] = ink_frame[p]]_vars

\* a finished run in which a resolved pixel was non-ink again in a frame
\* after its run of block_size ink frames (a flicker after confirmation)
C5_Witness ==
  /\ pc = "done"
  /\ \E p \in pixels :
       /\ ink_frame[p] < eff_frames
       /\ RunAt(p, ink_frame[p], block_size)
       /\ \E k \in (ink_frame[p] + block_size)..(NumStrided - 2) :
            ~InkAt(p, k) /\ InkAt(p, k + 1)

\* ------------------------------------------------------------------ C6
\* p first turns ink at frame s, is ink in s..a-1 (fewer than block_size
\* frames), is non-ink in a..b (fewer than block_size frames) and ink
\* again in b+1
FlickerAt(p, s, a, b) ==
  /\ 0 <= s /\ s < a /\ a <= b /\ b + 1 < NumStrided
  /\ \A k \in 0..(s - 1) : ~InkAt(p, k)
  /\ \A k \in s..(a - 1) : InkAt(p, k)
  /\ a - s < block_size
  /\ \A k \in a..b : ~InkAt(p, k)
  /\ b - a + 1 < block_size
  /\ InkAt(p, b + 1)

\* the strided streams of p and q agree outside frames lo..hi
AgreeOutside(p, q, lo, hi) ==
  \A k \in 0..(NumStrided - 1) :
    (k < lo \/ k > hi) => (InkAt(p, k) <=> InkAt(q, k))

\* C6 as stated: a pixel p that flickers before its ink run has lasted
\* block_size frames gets the same transition index as a pixel q whose
\* stream is that of p with the flicker absent (ink throughout a..b).
C6_FlickerBridged ==
  pc = "done" =>
    \A p \in final_frame, q \in final_frame :
      \A s \in 0..NumStrided, a \in 0..NumStrided, b \in 0..NumStrided :
        ( /\ FlickerAt(p, s, a, b)
          /\ AgreeOutside(p, q, a, b)
          /\ \A k \in a..b : InkAt(q, k) )
        => ink_frame[p] = ink_frame[q]

\* C6 as amended: the ink frames before the flicker are discarded, not
\* bridged: p gets the same transition index as a pixel q whose stream is
\* that of p with the ink frames s..a-1 before the flicker absent (non-ink).
C6_FlickerRestarts ==
  pc = "done" =>
    \A p \in final_frame, q \in final_frame :
      \A s \in 0..NumStrided, a \in 0..NumStrided, b \in 0..NumStrided :
        ( /\ FlickerAt(p, s, a, b)
          /\ AgreeOutside(p, q, s, a - 1)
          /\ \A k \in s..(a - 1) : ~InkAt(q, k) )
        => ink_frame[p] = ink_frame[q]

\* a finished run with such a pair of pixels, both resolved
C6_Witness ==
  /\ pc = "done"
  /\ \E p \in final_frame, q \in final_frame :
       \E s \in 0..NumStrided, a \in 0..NumStrided, b \in 0..NumStrided :
         /\ FlickerAt(p, s, a, b)
         /\ AgreeOutside(p, q, s, a - 1)
         /\ \A k \in s..(a - 1) : ~InkAt(q, k)
         /\ ink_frame[p] = ink_frame[q]
         /\ ink_frame[p] = b + 1

\* ------------------------------------------------------------------ C7
\* C7: bounded window: after the initial fill the buffer never holds more
\* than 2*block_size frames, and it holds at least block_size frames
\* whenever it is scanned or rendered while input remains.
C7_BoundedWindow ==
  /\ pc \notin {"getfinal", "fill"} => Len(frame_buffer) <= 2 * block_size
  /\ (pc \in {"scan", "write", "final", "finalwrite"} /\ pos < total_frames)
       => Len(frame_buffer) >= block_size

\* a scan of a later block of a strided stream with input still to come
C7_Witness ==
  /\ pc = "scan"
  /\ block_number >= 1
  /\ stride > 1
  /\ pos < total_frames
  /\ Len(frame_buffer) = 2 * block_size

\* ------------------------------------------------------------------ C8
\* the reference mask agrees with the last frame of the strided stream
MaskConsistent == final_frame \subseteq StridedStream[NumStrided]

\* C8: driver progress: a run over a stream with more than 2*block_size
\* effective frames (whose reference mask agrees with its last frame) never
\* ends in an error.
C8_DriverProgress ==
  (EnoughFrames /\ MaskConsistent) => pc # "abort"

\* ------------------------------------------------------------------ C9
\* C9: too-short video: with eff_frames <= 2*block_size the run never gets
\* past the fill check, where it ends with "not enough frames"; nothing was
\* written and every transition index is still the sentinel.
C9_TooShort ==
  eff_frames <= 2 * block_size =>
    /\ pc \in {"getfinal", "fill", "abort"}
    /\ pc = "abort" => err = "not enough frames"
    /\ out = <<>>
    /\ \A p \in pixels : ink_frame[p] = eff_frames

\* the run of a video of exactly 2*block_size effective frames has aborted
C9_Witness ==
  /\ pc = "abort"
  /\ err = "not enough frames"
  /\ eff_frames = 2 * block_size

\* ------------------------------------------------------------------ C10
\* unresolved pixels that are not ink in the last frame of the buffer
StaleUninked ==
  {p \in Range(uninked) : p \notin frame_buffer[Len(frame_buffer)]}

\* C10: final-block consistency error: when the final scan meets an
\* unresolved pixel that is non-ink in the last buffered frame, the run
\* aborts with the consistency error, every such pixel keeps the sentinel,
\* and nothing is written; the aborted run holds no frame of the final
\* block and no outro frame.
C10_FinalAbort ==
  /\ [][(pc = "final" /\ StaleUninked # {}) =>
          /\ pc' = "abort"
          /\ err' = "uninked pixel not black in final frame"
          /\ out' = out
          /\ \A p \in StaleUninked : ink_frame'[p] = eff_frames]_vars
  /\ []((pc = "abort" /\ err = "uninked pixel not black in final frame") =>
          \A k \in 1..Len(out) : out[k].kind = "frame" /\ out[k].f < FinalBase)

\* a run aborted by the final scan after the steady-state frames were
\* written, with the offending pixel still at the sentinel
C10_Witness ==
  /\ pc = "abort"
  /\ err = "uninked pixel not black in final frame"
  /\ out # <<>>
  /\ \E p \in StaleUninked : ink_frame[p] = eff_frames

\* ------------------------------------------------------------------ C11
\* C11: bounded reference-frame retry: the fetch retries at earlier indices
\* only down to the start of the stream; it never goes on to request an
\* index before frame 0.
C11_RetryStopsAtStart ==
  pc = "getfinal" => total_frames - n >= 0

\* ------------------------------------------------------------------ C12
\* the indices of the input-derived frames that were written
WrittenIndices == {out[k].f : k \in InputFrames}

\* C12: ink-only emission: at Done, with only_ink_frames set every frame
\* index at which a pixel of the reference mask has its transition was
\* written, and with only_ink_frames unset every frame read was written.
C12_InkOnlyEmission ==
  pc = "done" =>
    /\ only_ink_frames =>
         \A p \in pixels :
           ink_frame[p] # eff_frames => ink_frame[p] \in WrittenIndices
    /\ ~only_ink_frames =>
         \A k \in 0..(NumStrided - 1) : k \in WrittenIndices

\* ------------------------------------------------------------------ C13
\* round(outro_length * fps), fps given in hundredths
RoundedOutro == (outro_length * fps100 + 50) \div 100

\* the outro frames of the writer
OutroFrames == {k \in 1..Len(out) : out[k].kind = "outro"}

\* C13: outro length: at Done the writer holds round(outro_length * fps)
\* outro frames, each a copy of the frame rendered for the last index of
\* the final buffer.
C13_OutroLength ==
  pc = "done" =>
    /\ Cardinality(OutroFrames) = RoundedOutro
    /\ \A k \in OutroFrames :
         out[k].img = {p \in pixels : ink_frame[p] <= out[k].f}

\* ------------------------------------------------------------------ C14
\* C14: never-ink pixels: once the reference mask is built, a pixel that is
\* not ink in it is never in the uninked list, keeps the sentinel, and is
\* white in every frame written, outro included.
C14_NeverInk ==
  pc # "getfinal" =>
    \A p \in pixels \ final_frame :
      /\ p \notin Range(uninked)
      /\ ink_frame[p] = eff_frames
      /\ \A k \in 1..Len(out) : p \notin out[k].img

\* ------------------------------------------------------------------ C16
\* the indices f of a window at which p is ink in frames f .. f+bs-1
QualifyingStarts(buf, p, bs) ==
  {f \in 0..(Len(buf) - bs) : \A k \in f..(f + bs - 1) : p \in buf[k + 1]}

\* C16: window scan result: on a window of at least block_size frames
\* find_ink_frame returns the smallest index at which a run of block_size
\* ink frames of the pixel starts, and None exactly when there is none.
C16_WindowScan ==
  pc = "returned" =>
    LET Q == QualifyingStarts(frame_buffer, uninked[1], block_size)
    IN  IF Q = {} THEN ret = None ELSE ret = Min(Q)

\* a call that skipped forward over a shorter run before finding the
\* qualifying one, on a window in which the other pixel differs
C16_Witness ==
  /\ pc = "returned"
  /\ ret >= 2
  /\ block_size >= 2
  /\ \E k \in 0..(ret - 2) : uninked[1] \in frame_buffer[k + 1]
  /\ \E k \in 1..Len(frame_buffer), q \in pixels :
       q # uninked[1] /\ ~(q \in frame_buffer[k] <=> uninked[1] \in frame_buffer[k])

\* ------------------------------------------------------------------ C15
\* the driver is between two of its steps, past the set-up
BetweenSteps == pc \notin {"getfinal", "abort"}

TailRunStart(buf, p) ==
  Min({t \in 0..(Len(buf) - 1) : \A k \in t..(Len(buf) - 1) : p \in buf[k + 1]})

\* what the final scan owes an unresolved pixel that is ink in the last
\* buffered frame
FinalAssigned(p) ==
  /\ ink_frame'[p] = FinalBase + TailRunStart(frame_buffer, p)
  /\ p \notin Range(uninked')

\* C17 as stated: the final scan gives every unresolved pixel that is ink
\* in the last buffered frame the transition block offset + start of the
\* ink run ending at the last index, and removes it from the uninked list.
C17_FinalVariant ==
  [][pc = "final" =>
       \A p \in Range(uninked) :
         p \in frame_buffer[Len(frame_buffer)] => FinalAssigned(p)]_vars

\* C17 amended: the same, for a final scan in which every unresolved pixel
\* is ink in the last buffered frame (otherwise the scan aborts).
C17_FinalVariantNoStale ==
  [][(pc = "final" /\ StaleUninked = {}) =>
       \A p \in Range(uninked) :
         p \in frame_buffer[Len(frame_buffer)] => FinalAssigned(p)]_vars

\* after a final scan that resolved two pixels at different frames, one of
\* them from a run shorter than block_size
C17_Witness ==
  /\ pc = "finalwrite"
  /\ Cardinality(new_inked_frames) = 2
  /\ \E f \in new_inked_frames : Len(frame_buffer) - f < block_size

\* ------------------------------------------------------------------ C18
\* the input-derived frames of the writer are the strided frame indices
\* 0, 1, 2, ... in this order, up to the last frame read
CompleteInOrder ==
  /\ Cardinality(InputFrames) = NumStrided
  /\ \A k \in 1..NumStrided :
       k <= Len(out) /\ out[k].kind = "frame" /\ out[k].f = k - 1

\* C18: complete, ordered output: with only_ink_frames unset, a run over a
\* stream with more than 2*block_size effective frames (whose reference
\* mask agrees with its last frame) ends with every strided frame index
\* written exactly once, in increasing order, before the outro.
C18_CompleteOrdered ==
  (EnoughFrames /\ MaskConsistent /\ ~only_ink_frames
     /\ pc \in {"done", "abort"}) => CompleteInOrder

\* ------------------------------------------------------------------ C19
\* frame t of the strided stream is a white-to-ink edge of pixel p
EdgeAt(p, t) ==
  /\ t < NumStrided
  /\ InkAt(p, t)
  /\ t = 0 \/ ~InkAt(p, t - 1)

\* C19: transition marks a true white-to-ink edge: at Done, every pixel
\* with a transition index t other than the sentinel is ink in frame t of
\* the strided stream and, unless t = 0, not ink in frame t-1.
C19_TrueEdge ==
  pc = "done" =>
    \A p \in pixels : ink_frame[p] # eff_frames => EdgeAt(p, ink_frame[p])

\* a run that ended with a transition found by a steady scan after the
\* first block, in a stream that also has an earlier, shorter ink run
C19_Witness ==
  /\ pc = "done"
  /\ block_size >= 2
  /\ \E p \in pixels :
       /\ ink_frame[p] >= block_size
       /\ ink_frame[p] < FinalBase
       /\ \E k \in 0..(ink_frame[p] - 2) : InkAt(p, k)

====
